---- MODULE Spec2Model ----
(***************************************************************************)
(* docs/generate_md.py: a script that builds a dict of five Markdown       *)
(* documents (f-strings, with the code fence spelled {BQ}) and writes them *)
(* into Local_Sync_Board_Cloud_Docs.zip with zipfile.ZipFile(..., 'w').    *)
(*                                                                         *)
(* Text is a sequence of tokens.  Lit(s) is a run of ASCII source text,    *)
(* Cp(n) one character by its code point.  A run of source lines that     *)
(* holds no brace and no backtick fence is carried as one Lit naming       *)
(* the file and the lines.  A template (the source of an f-string) also    *)
(* holds Field(e) for a replacement field {e} and LB / RB for the escaped  *)
(* braces {{ and }}.                                                       *)
(***************************************************************************)
EXTENDS Integers, Sequences, FiniteSets

VARIABLES
  literal,        \* the dict display of lines 7-176: <<key, template>> items in source order
  files_content,  \* the dict built from it: a sequence of [name, content], insertion order
  pc,             \* the statement the script is at
  idx,            \* position of the for loop: items taken from files_content.items()
  zipf,           \* the ZipFile object: [open, filelist]
  disk,           \* the file at zip_filename: [exists, entries, finalized]
  stdout,         \* the lines print() has written
  err,            \* the uncaught exception the interpreter reports
  opens,          \* calls of zipfile.ZipFile(...) made by this run
  prior,          \* the file at zip_filename when this run started
  run             \* invocations of the script so far

vars == <<literal, files_content, pc, idx, zipf, disk, stdout, err, opens, prior, run>>

----------------------------------------------------------------------------
\* Bounds of the model.
MaxRuns == 2
MaxEntries == 3
MaxPartial == 1

----------------------------------------------------------------------------
\* Text, templates and f-string evaluation.
Lit(s) == [lit |-> s]
Cp(n) == [cp |-> n]
Field(e) == [field |-> e]
LB == [esc |-> "{"]
RB == [esc |-> "}"]

\* The concatenation of the sequences ss[lo], ..., ss[hi].
RECURSIVE ConcatRange(_, _, _)
ConcatRange(ss, lo, hi) ==
  IF lo > hi THEN <<>>
  ELSE IF lo = hi THEN ss[lo]
  ELSE ConcatRange(ss, lo, (lo + hi) \div 2) \o ConcatRange(ss, (lo + hi) \div 2 + 1, hi)

Concat(ss) == ConcatRange(ss, 1, Len(ss))

\* The backtick is U+0060.
BQTwoBackticks == <<Cp(96), Cp(96)>>
BQ == <<Cp(96), Cp(96), Cp(96)>>

Namespace == [BQ |-> BQ]

FStringPart(tok) ==
  IF "field" \in DOMAIN tok THEN Namespace[tok.field]
  ELSE IF "esc" \in DOMAIN tok THEN <<Lit(tok.esc)>>
  ELSE <<tok>>

FString(tpl) == Concat([i \in DOMAIN tpl |-> FStringPart(tpl[i])])

README_md == <<Lit("src/docs/generate_md.py:8-26")>>

Requirements_md == <<Lit("src/docs/generate_md.py:28-60")>>

Basic_Design_md == <<Lit("src/docs/generate_md.py:62-87")>>

Data_Model_md ==
  << Lit("src/docs/generate_md.py:89-119"),
     Field("BQ"), Lit("json\n"),
     LB, Lit("\n"),
     Lit("  \"variables\": [\n"),
     Lit("    "), LB, Lit(" \"key\": \"score\", \"label\": \""), Cp(28857), Cp(25968),
       Lit("\", \"initial\": 25000 "), RB, Lit(",\n"),
     Lit("    "), LB, Lit(" \"key\": \"coins\", \"label\": \""), Cp(12467), Cp(12452),
       Cp(12531), Lit("\", \"initial\": 0 "), RB, Lit("\n"),
     Lit("  ],\n"),
     Lit("  \"actions\": [\n"),
     Lit("    "), LB, Lit(" \"label\": \""), Cp(12522), Cp(12540), Cp(12481),
       Lit("\", \"calc\": \"score - 1000\" "), RB, Lit("\n"),
     Lit("  ]\n"),
     RB, Lit("\n"),
     Field("BQ"), Lit("\n"),
     Lit("src/docs/generate_md.py:131-133"),
     Field("BQ"), Lit("json\n"),
     LB, Lit("\n"),
     Lit("  \"user_uuid_A\": "), LB, Lit("\n"),
     Lit("    \"score\": 24000,\n"),
     Lit("    \"coins\": 0,\n"),
     Lit("    \"_status\": \"ready\" \n"),
     Lit("  "), RB, Lit(",\n"),
     Lit("  \"user_uuid_B\": "), LB, Lit("\n"),
     Lit("    \"score\": 25000,\n"),
     Lit("    \"coins\": 0,\n"),
     Lit("    \"_status\": \"thinking\"\n"),
     Lit("  "), RB, Lit("\n"),
     RB, Lit("\n"),
     Field("BQ"), Lit("\n"),
     Lit("src/docs/generate_md.py:148-153") >>

Tech_Architecture_md == <<Lit("src/docs/generate_md.py:155-175")>>

RegistryLiteralShort ==
  << <<"README.md", README_md>>,
     <<"01_Requirements.md", Requirements_md>>,
     <<"02_Basic_Design.md", Basic_Design_md>>,
     <<"03_Data_Model.md", Data_Model_md>> >>
RegistryLiteral ==
  << <<"README.md", README_md>>,
     <<"01_Requirements.md", Requirements_md>>,
     <<"02_Basic_Design.md", Basic_Design_md>>,
     <<"03_Data_Model.md", Data_Model_md>>,
     <<"04_Tech_Architecture.md", Tech_Architecture_md>> >>

\* A dict display evaluates its items left to right; a key already present keeps
\* its position and takes the new value.
DictSet(d, k, v) ==
  IF \E i \in DOMAIN d : d[i].name = k
  THEN [i \in DOMAIN d |-> IF d[i].name = k THEN [name |-> k, content |-> v] ELSE d[i]]
  ELSE Append(d, [name |-> k, content |-> v])

RECURSIVE DictDisplayFrom(_, _)
DictDisplayFrom(d, kvs) ==
  IF kvs = <<>> THEN d
  ELSE DictDisplayFrom(DictSet(d, Head(kvs)[1], FString(Head(kvs)[2])), Tail(kvs))

DictDisplay(kvs) == DictDisplayFrom(<<>>, kvs)

\* dict.items() yields the items in insertion order.
ItemsReversed(d) == [i \in DOMAIN d |-> d[Len(d) + 1 - i]]
Items(d) == d

zip_filename == "Local_Sync_Board_Cloud_Docs.zip"

----------------------------------------------------------------------------
\* writestr encodes a str as UTF-8.
Utf8Char(tok) ==
  IF "lit" \in DOMAIN tok THEN <<[ascii |-> tok.lit]>>
  ELSE IF tok.cp < 128 THEN <<[byte |-> tok.cp]>>
  ELSE IF tok.cp < 2048
    THEN <<[byte |-> 192 + (tok.cp \div 64)], [byte |-> 128 + (tok.cp % 64)]>>
  ELSE IF tok.cp < 65536
    THEN <<[byte |-> 224 + (tok.cp \div 4096)],
           [byte |-> 128 + ((tok.cp \div 64) % 64)],
           [byte |-> 128 + (tok.cp % 64)]>>
  ELSE <<[byte |-> 240 + (tok.cp \div 262144)],
         [byte |-> 128 + ((tok.cp \div 4096) % 64)],
         [byte |-> 128 + ((tok.cp \div 64) % 64)],
         [byte |-> 128 + (tok.cp % 64)]>>

Utf8Encode(text) == Concat([i \in DOMAIN text |-> Utf8Char(text[i])])

----------------------------------------------------------------------------
\* The file at zip_filename as a reader of it sees it: finalized when it ends in
\* a central directory, which lists entries.
NoFile == [exists |-> FALSE, entries |-> <<>>, finalized |-> FALSE]
NotAnArchive == [exists |-> TRUE, entries |-> <<>>, finalized |-> FALSE]
ForeignArchive ==
  [exists |-> TRUE, finalized |-> TRUE,
   entries |-> <<[name |-> "old.txt", body |-> <<[ascii |-> "x"]>>]>>]
PriorDisks == {NoFile, NotAnArchive, ForeignArchive}

\* ZipFile(zip_filename, 'w') truncates or creates the file; 'a' would keep an
\* archive that is there.
ZipFileAppend(d) == IF d.exists /\ d.finalized THEN [d EXCEPT !.finalized = FALSE] ELSE NotAnArchive
ZipFileWrite(d) == NotAnArchive

\* ZipFile(...) raising leaves the path as it was.
OpenFailureTruncates(d) == NotAnArchive
OpenFailure(d) == d

\* ZipFile.close() writes the central directory of filelist; when it raises,
\* the file has none.
Close(z, ok) == [exists |-> TRUE, entries |-> IF ok THEN z.filelist ELSE <<>>, finalized |-> ok]

ZipClosed == [open |-> FALSE, filelist |-> <<>>]

NoError == [stmt |-> "none", line |-> 0, names |-> {}]
Traceback(stmt, line, names) == [stmt |-> stmt, line |-> line, names |-> names]

\* An uncaught exception ends the script.
PcAfterRaiseSwallowed == "done"
PcAfterRaise == "failed"

CreatingLine == [kind |-> "Creating", arg |-> zip_filename]
AddedLineZip(name) == [kind |-> "Added", arg |-> zip_filename]
AddedLine(name) == [kind |-> "Added", arg |-> name]
DoneLine == [kind |-> "Done", arg |-> zip_filename]

\* The loop variables of line 183.
filename == Items(files_content)[idx].name
content == Items(files_content)[idx].content

ZipEntry(name, data) == [name |-> name, body |-> data]

----------------------------------------------------------------------------
RegNames == {"README.md", "01_Requirements.md"}
RegTemplates == {README_md, Requirements_md}
LiteralSpace == UNION {[1..n -> RegNames \X RegTemplates] : n \in 0..MaxEntries}

InitRun ==
  /\ files_content = <<>>
  /\ pc = "build"
  /\ idx = 0
  /\ zipf = ZipClosed
  /\ stdout = <<>>
  /\ err = NoError
  /\ opens = 0
  /\ disk \in PriorDisks
  /\ prior = disk
  /\ run = 1

Init == literal = RegistryLiteral /\ InitRun

InitReg == literal \in LiteralSpace /\ InitRun

\* Lines 5-179: BQ, the dict display, zip_filename.
BuildRegistry ==
  /\ pc = "build"
  /\ files_content' = DictDisplay(literal)
  /\ pc' = "creating"
  /\ UNCHANGED <<literal, idx, zipf, disk, stdout, err, opens, prior, run>>

\* Line 180.
PrintCreating ==
  /\ pc = "creating"
  /\ stdout' = Append(stdout, CreatingLine)
  /\ pc' = "open"
  /\ UNCHANGED <<literal, files_content, idx, zipf, disk, err, opens, prior, run>>

PrintCreatingRaises ==
  /\ pc = "creating"
  /\ err' = Traceback("print", 180, {})
  /\ pc' = PcAfterRaise
  /\ UNCHANGED <<literal, files_content, idx, zipf, disk, stdout, opens, prior, run>>

\* Line 182: zipfile.ZipFile(zip_filename, 'w') and __enter__.
OpenArchive ==
  /\ pc = "open"
  /\ disk' = ZipFileWrite(disk)
  /\ zipf' = [open |-> TRUE, filelist |-> disk'.entries]
  /\ opens' = opens + 1
  /\ pc' = "loop"
  /\ UNCHANGED <<literal, files_content, idx, stdout, err, prior, run>>

OpenArchiveRaises ==
  /\ pc = "open"
  /\ disk' = OpenFailure(disk)
  /\ opens' = opens + 1
  /\ err' = Traceback("ZipFile", 182, {zip_filename})
  /\ pc' = PcAfterRaise
  /\ UNCHANGED <<literal, files_content, idx, zipf, stdout, prior, run>>

\* Line 183: the next item, or the end of the loop.
ForNext ==
  /\ pc = "loop"
  /\ idx < Len(Items(files_content))
  /\ idx' = idx + 1
  /\ pc' = "write"
  /\ UNCHANGED <<literal, files_content, zipf, disk, stdout, err, opens, prior, run>>

ForExit ==
  /\ pc = "loop"
  /\ idx = Len(Items(files_content))
  /\ pc' = "exit"
  /\ UNCHANGED <<literal, files_content, idx, zipf, disk, stdout, err, opens, prior, run>>

\* Line 184.
WriteStr ==
  /\ pc = "write"
  /\ zipf' = [zipf EXCEPT !.filelist = Append(@, ZipEntry(filename, Utf8Encode(content)))]
  /\ pc' = "added"
  /\ UNCHANGED <<literal, files_content, idx, disk, stdout, err, opens, prior, run>>

\* An exception inside the with block runs ZipFile.__exit__, which calls close().
ExitOnException(filelist, closeOk, tb) ==
  /\ zipf' = [open |-> FALSE, filelist |-> filelist]
  /\ disk' = Close(zipf', closeOk)
  /\ err' = tb
  /\ pc' = PcAfterRaise

\* writestr raising: before the entry is opened it leaves no entry; once the
\* entry is open, _ZipWriteFile.close() lists it with the bytes that went in.
WriteStrRaises ==
  /\ pc = "write"
  /\ \E closeOk \in BOOLEAN :
       \/ ExitOnException(zipf.filelist, closeOk, Traceback("writestr", 184, {}))
       \/ \E n \in 0..MaxPartial :
            /\ n < Len(Utf8Encode(content))
            /\ ExitOnException(
                 Append(zipf.filelist,
                        ZipEntry(filename, SubSeq(Utf8Encode(content), 1, n))),
                 closeOk, Traceback("writestr", 184, {}))
  /\ UNCHANGED <<literal, files_content, idx, stdout, opens, prior, run>>

\* Line 185.
PrintAdded ==
  /\ pc = "added"
  /\ stdout' = Append(stdout, AddedLine(filename))
  /\ pc' = "loop"
  /\ UNCHANGED <<literal, files_content, idx, zipf, disk, err, opens, prior, run>>

PrintAddedRaises ==
  /\ pc = "added"
  /\ \E closeOk \in BOOLEAN :
       ExitOnException(zipf.filelist, closeOk, Traceback("print", 185, {}))
  /\ UNCHANGED <<literal, files_content, idx, stdout, opens, prior, run>>

\* The with block left normally: ZipFile.__exit__ calls close().
ExitWith ==
  /\ pc = "exit"
  /\ zipf' = [zipf EXCEPT !.open = FALSE]
  /\ disk' = Close(zipf, TRUE)
  /\ pc' = "done"
  /\ UNCHANGED <<literal, files_content, idx, stdout, err, opens, prior, run>>

ExitWithRaises ==
  /\ pc = "exit"
  /\ zipf' = [zipf EXCEPT !.open = FALSE]
  /\ disk' = Close(zipf, FALSE)
  /\ err' = Traceback("__exit__", 182, {})
  /\ pc' = PcAfterRaise
  /\ UNCHANGED <<literal, files_content, idx, stdout, opens, prior, run>>

\* Line 187.
PrintDone ==
  /\ pc = "done"
  /\ stdout' = Append(stdout, DoneLine)
  /\ pc' = "end"
  /\ UNCHANGED <<literal, files_content, idx, zipf, disk, err, opens, prior, run>>

PrintDoneRaises ==
  /\ pc = "done"
  /\ err' = Traceback("print", 187, {})
  /\ pc' = PcAfterRaise
  /\ UNCHANGED <<literal, files_content, idx, zipf, disk, stdout, opens, prior, run>>

\* The script is invoked again in the same directory.
StartRun ==
  /\ pc \in {"end", "failed"}
  /\ run < MaxRuns
  /\ run' = run + 1
  /\ prior' = disk
  /\ files_content' = <<>>
  /\ pc' = "build"
  /\ idx' = 0
  /\ zipf' = ZipClosed
  /\ stdout' = <<>>
  /\ err' = NoError
  /\ opens' = 0
  /\ UNCHANGED <<literal, disk>>

Next ==
  \/ BuildRegistry
  \/ PrintCreating
  \/ PrintCreatingRaises
  \/ OpenArchive
  \/ OpenArchiveRaises
  \/ ForNext
  \/ ForExit
  \/ WriteStr
  \/ WriteStrRaises
  \/ PrintAdded
  \/ PrintAddedRaises
  \/ ExitWith
  \/ ExitWithRaises
  \/ PrintDone
  \/ PrintDoneRaises
  \/ StartRun

Spec == Init /\ [][Next]_vars

SpecReg == InitReg /\ [][Next]_vars

----------------------------------------------------------------------------
\* What a reader of the archive does with a stored body, and what the claims
\* are stated in.
\* The character a lead byte starts; a continuation byte starts none.
Utf8CharAt(bs, i) ==
  LET b == bs[i]
      c(k) == bs[i + k].byte - 128
  IN IF "ascii" \in DOMAIN b THEN <<Lit(b.ascii)>>
     ELSE IF b.byte < 128 THEN <<Cp(b.byte)>>
     ELSE IF b.byte < 192 THEN <<>>
     ELSE IF b.byte < 224 THEN <<Cp((b.byte - 192) * 64 + c(1))>>
     ELSE IF b.byte < 240 THEN <<Cp((b.byte - 224) * 4096 + c(1) * 64 + c(2))>>
     ELSE <<Cp((b.byte - 240) * 262144 + c(1) * 4096 + c(2) * 64 + c(3))>>

RECURSIVE Utf8DecodeRange(_, _, _)
Utf8DecodeRange(bs, lo, hi) ==
  IF lo > hi THEN <<>>
  ELSE IF lo = hi THEN Utf8CharAt(bs, lo)
  ELSE Utf8DecodeRange(bs, lo, (lo + hi) \div 2)
         \o Utf8DecodeRange(bs, (lo + hi) \div 2 + 1, hi)

Utf8Decode(bs) == Utf8DecodeRange(bs, 1, Len(bs))

Backtick == Cp(96)

\* A text read back as a template: each three backticks of a run are the token,
\* a single brace an escaped brace.
RefoldAt(text, i) ==
  IF text[i] = Backtick
    THEN LET first == CHOOSE j \in 1..i :
                        /\ \A k \in j..i : text[k] = Backtick
                        /\ j > 1 => text[j - 1] # Backtick
             t == i - ((i - first) % 3)
             whole == /\ t + 2 <= Len(text)
                      /\ text[t + 1] = Backtick /\ text[t + 2] = Backtick
         IN IF ~ whole THEN <<text[i]>>
            ELSE IF i = t THEN <<Field("BQ")>>
            ELSE <<>>
  ELSE IF text[i] \in {Lit("{"), Lit("}")} THEN <<[esc |-> text[i].lit]>>
  ELSE <<text[i]>>

RECURSIVE RefoldRange(_, _, _)
RefoldRange(text, lo, hi) ==
  IF lo > hi THEN <<>>
  ELSE IF lo = hi THEN RefoldAt(text, lo)
  ELSE RefoldRange(text, lo, (lo + hi) \div 2)
         \o RefoldRange(text, (lo + hi) \div 2 + 1, hi)

Refold(text) == RefoldRange(text, 1, Len(text))

\* The positions where a fence (three backticks) starts.
Fences(text) ==
  {i \in 1..(Len(text) - 2) :
     text[i] = Backtick /\ text[i + 1] = Backtick /\ text[i + 2] = Backtick}

\* The fenced JSON blocks of a text: <<open, close>> positions of consecutive
\* fences, the opening one followed by "json" and the end of the line, the
\* closing one by the end of the line.
JsonBlocks(text) ==
  {oc \in Fences(text) \X Fences(text) :
     /\ oc[1] < oc[2]
     /\ Cardinality({f \in Fences(text) : f < oc[1]}) % 2 = 0
     /\ ~ \E f \in Fences(text) : oc[1] < f /\ f < oc[2]
     /\ text[oc[1] + 3] = Lit("json\n")
     /\ oc[2] + 3 <= Len(text)
     /\ text[oc[2] + 3] = Lit("\n")}

Template(name) ==
  LET i == CHOOSE j \in DOMAIN literal :
             literal[j][1] = name /\ \A k \in DOMAIN literal : literal[k][1] = name => k <= j
  IN literal[i][2]

Names(entries) == [i \in DOMAIN entries |-> entries[i].name]

\* The entry writestr stores for item i of the registry.
Stored(i) == ZipEntry(files_content[i].name, Utf8Encode(files_content[i].content))

ExpectedArchive ==
  [exists |-> TRUE, finalized |-> TRUE,
   entries |-> [i \in DOMAIN files_content |-> Stored(i)]]

Succeeded == pc \in {"done", "end"}

AddedLines == SelectSeq(stdout, LAMBDA l : l.kind = "Added")
DoneCount == Cardinality({i \in DOMAIN stdout : stdout[i].kind = "Done"})

HasDuplicateNames(kvs) == \E i, j \in DOMAIN kvs : i # j /\ kvs[i][1] = kvs[j][1]

----------------------------------------------------------------------------
\* C1 (Completeness): once the with block has been left normally, the archive on
\* disk is finalized and its entry names are exactly the five documents, five
\* entries in all.
C1_Completeness ==
  Succeeded =>
    /\ disk.exists /\ disk.finalized
    /\ Len(disk.entries) = 5
    /\ {disk.entries[i].name : i \in DOMAIN disk.entries} =
         {"README.md", "01_Requirements.md", "02_Basic_Design.md",
          "03_Data_Model.md", "04_Tech_Architecture.md"}

C1_Witness == pc = "end" /\ disk.finalized /\ Len(disk.entries) = 5

\* C2 (Uniqueness enforcement), as claimed: a registry defined with a repeated
\* name never gets past construction, and the file at the output path stays as
\* it was.
C2_DuplicateRejected ==
  HasDuplicateNames(literal) =>
    /\ pc \in {"build", "failed"}
    /\ opens = 0
    /\ disk = prior

\* C3 (No partial success), as claimed: a finished run either succeeded with the
\* whole archive or failed; and after writestr raised for entry idx, nothing
\* later was written and the file is not a finalized archive of just the entries
\* before it.
C3_NoPartialSuccess ==
  /\ pc = "end" => disk = ExpectedArchive /\ DoneCount = 1 /\ err = NoError
  /\ pc = "failed" => err # NoError
  /\ err.stmt = "writestr" =>
       /\ pc = "failed"
       /\ Len(zipf.filelist) <= idx
       /\ ~ (/\ disk.finalized
             /\ disk.entries = [i \in 1..(idx - 1) |-> Stored(i)])

\* C4 (Failure propagation on open): when ZipFile(...) raises, the run has
\* failed after one call of it, nothing was written, the only line printed is
\* the opening one, and the file at the output path is as the run found it.
C4_OpenFailure ==
  err.stmt = "ZipFile" =>
    /\ pc = "failed"
    /\ opens = 1
    /\ zipf = ZipClosed
    /\ stdout = <<CreatingLine>>
    /\ disk = prior
    /\ zip_filename \in err.names

C4_Witness == err.stmt = "ZipFile" /\ pc = "failed" /\ ~ disk.exists

\* C5 (Idempotent regeneration): whatever was at the output path, after a
\* successful run the archive holds exactly the registry's entries; so a second
\* successful run leaves what the first left.
C5_Regeneration ==
  Succeeded =>
    /\ disk = ExpectedArchive
    /\ (prior = ExpectedArchive => disk = prior)

C5_Witness == pc = "end" /\ run = 2 /\ prior.finalized /\ prior = disk /\ disk.entries # <<>>

\* C6 (Completion is claimed only when true): the completion line is printed at
\* most once per run, only with every entry written and the archive closed and
\* finalized, and never in a run where something raised.
C6_Completion ==
  /\ DoneCount <= 1
  /\ DoneCount = 1 =>
       /\ ~ zipf.open
       /\ zipf.filelist = [i \in DOMAIN files_content |-> Stored(i)]
       /\ disk.finalized /\ disk.entries = zipf.filelist
  /\ err # NoError => DoneCount = 0

C6_Witness == pc = "end" /\ DoneCount = 1 /\ Len(zipf.filelist) = 5

\* C7 (Content fidelity): every body that writestr stored in full (the entry
\* whose write raised is the one exception) decodes to a text with no unresolved
\* field or escape, which reads back as the document's template with each run of
\* three backticks taken as the token; and on a successful run the body of
\* 03_Data_Model.md holds exactly two fenced JSON blocks and no other fence.
C7_ContentFidelity ==
  /\ \A i \in DOMAIN zipf.filelist :
       (err.stmt = "writestr" => i < idx) =>
         LET text == Utf8Decode(zipf.filelist[i].body)
         IN /\ \A k \in DOMAIN text : DOMAIN text[k] \in {{"lit"}, {"cp"}}
            /\ Refold(text) = Template(zipf.filelist[i].name)
  /\ Succeeded =>
       \E i \in DOMAIN disk.entries :
         /\ disk.entries[i].name = "03_Data_Model.md"
         /\ Cardinality(JsonBlocks(Utf8Decode(disk.entries[i].body))) = 2
         /\ Cardinality(Fences(Utf8Decode(disk.entries[i].body))) = 4

C7_Witness ==
  /\ pc = "end"
  /\ \E i \in DOMAIN disk.entries :
       /\ disk.entries[i].name = "03_Data_Model.md"
       /\ Cardinality(JsonBlocks(Utf8Decode(disk.entries[i].body))) = 2

\* The per-run state machine of the emitter.
RunStateOf(p, i) ==
  CASE p \in {"build", "creating", "open"} -> "Idle"
    [] p \in {"loop", "exit"} /\ i = 0 -> "Opened"
    [] p \in {"loop", "exit"} /\ i > 0 -> "WritingEntry"
    [] p \in {"write", "added"} -> "WritingEntry"
    [] p \in {"done", "end"} -> "Finalized"
    [] OTHER -> "Failed"

RunTransitions ==
  { <<"Idle", "Idle">>, <<"Idle", "Opened">>, <<"Opened", "Opened">>,
    <<"Opened", "WritingEntry">>, <<"WritingEntry", "WritingEntry">>,
    <<"Opened", "Finalized">>, <<"WritingEntry", "Finalized">>,
    <<"Finalized", "Finalized">>,
    <<"Idle", "Failed">>, <<"Opened", "Failed">>, <<"WritingEntry", "Failed">>,
    <<"Finalized", "Failed">>,
    <<"Finalized", "Idle">>, <<"Failed", "Idle">> }

\* C8 (State machine and write order): every step follows Idle -> Opened ->
\* WritingEntry* -> Finalized (or fails, or starts the next run); a step that
\* writes an entry does so in WritingEntry with the archive open, and the entry
\* is the next of the registry in insertion order, so none is written twice or
\* out of order (a write that raises adds at most that same next entry); nothing
\* is in the archive before it is opened; and Finalized is entered only with
\* every registry entry written, once each.
C8_Step ==
  /\ <<RunStateOf(pc, idx), RunStateOf(pc', idx')>> \in RunTransitions
  /\ (zipf'.filelist # zipf.filelist /\ pc' \notin {"failed", "build"}) =>
       /\ zipf.open /\ zipf'.open
       /\ RunStateOf(pc, idx) = "WritingEntry"
       /\ Len(zipf.filelist) < Len(files_content)
       /\ zipf'.filelist = Append(zipf.filelist, Stored(Len(zipf.filelist) + 1))
  /\ (zipf'.filelist # zipf.filelist /\ pc' = "failed") =>
       /\ zipf.open /\ pc = "write"
       /\ SubSeq(zipf'.filelist, 1, Len(zipf.filelist)) = zipf.filelist
       /\ Names(zipf'.filelist) = Append(Names(zipf.filelist), files_content[idx].name)
  /\ (zipf.open # zipf'.open /\ zipf'.open) => zipf'.filelist = <<>>
  /\ RunStateOf(pc', idx') = "Idle" => ~ zipf'.open /\ zipf'.filelist = <<>>
  /\ RunStateOf(pc', idx') = "Finalized" =>
       /\ ~ zipf'.open
       /\ zipf'.filelist = [i \in DOMAIN files_content |-> Stored(i)]
       /\ Names(zipf'.filelist) =
            <<"README.md", "01_Requirements.md", "02_Basic_Design.md",
              "03_Data_Model.md", "04_Tech_Architecture.md">>

C8_StateMachine == [][C8_Step]_vars

C8_Witness ==
  /\ pc = "added" /\ idx = 3
  /\ Names(zipf.filelist) = <<"README.md", "01_Requirements.md", "02_Basic_Design.md">>

\* What C9 says of the progress lines in every state: each names an entry that
\* has been written in full, at most once, in write order.
ProgressFollowsWrites ==
  /\ Len(AddedLines) <= Len(zipf.filelist)
  /\ \A i \in DOMAIN AddedLines :
       /\ zipf.filelist[i] = Stored(i)
       /\ AddedLines[i] = [kind |-> "Added", arg |-> zipf.filelist[i].name]
  /\ pc \in {"loop", "exit", "done", "end"} => Len(AddedLines) = Len(zipf.filelist)

\* C9 (Progress reporting), as claimed: on a successful run the printed output
\* is the progress lines and the confirmation line, and nothing else.
C9_SixLines ==
  /\ ProgressFollowsWrites
  /\ pc = "end" =>
       /\ stdout = AddedLines \o <<DoneLine>>
       /\ Len(stdout) = Len(files_content) + 1

\* C9 as amended: the progress lines follow the writes as claimed, and on a
\* successful run the printed output is the opening "Creating ..." line, one
\* progress line per entry in write order, and the confirmation line: 7 lines
\* for the 5 entries.
C9_Progress ==
  /\ ProgressFollowsWrites
  /\ \A i \in DOMAIN stdout :
       /\ stdout[i].kind = "Creating" <=> i = 1
       /\ stdout[i].kind = "Done" => i = Len(stdout) /\ pc = "end"
  /\ pc = "end" =>
       /\ stdout = <<CreatingLine>>
                     \o [i \in DOMAIN files_content |-> [kind |-> "Added", arg |-> files_content[i].name]]
                     \o <<DoneLine>>
       /\ Len(stdout) = 7

C9_Witness == pc = "end" /\ Len(AddedLines) = 5 /\ stdout[Len(stdout)] = DoneLine

\* C10 (Failure context), as claimed: after writestr raised, the lines printed
\* and the reported error between them name the entry that was being written.
C10_FailureContext ==
  (pc = "failed" /\ err.stmt = "writestr") =>
    filename \in err.names \cup {stdout[i].arg : i \in DOMAIN stdout}

====
